---- MODULE Spec2Model ----
(***************************************************************************)
(* State-machine model of scraper.py (IMGT 3Dstructure-DB scraper).        *)
(*                                                                         *)
(* The program is one object (class scraper) whose run() method is a       *)
(* straight-line procedure: post_query, an emptiness test, process_response*)
(* pandas.read_html, a directory test, and two calls of DataFrame.to_csv.  *)
(* Every failure is a raised Exception that nothing catches, so the        *)
(* interpreter ends the process with status 1.                             *)
(*                                                                         *)
(* The environment is the remote server (responsive, unreachable, or       *)
(* accepting the connection and never answering), the response it sends,   *)
(* the state of the output directory, the file already at the output path, *)
(* and the outcome of each file write.                                     *)
(*                                                                         *)
(* Texts are records [s, k]: the string s followed by the numeric suffix k *)
(* (k = 0: no suffix).  A header cell "ColA" is [s |-> "ColA", k |-> 0];    *)
(* the name pandas gives a repeated header, "ColA.1", is                   *)
(* [s |-> "ColA", k |-> 1]; the data cell of table p, row i, column j is    *)
(* [s |-> "v", k |-> CellNo(p, i, j)], a text different for every cell.     *)
(* pandas' type inference on cell values and CSV quoting are outside the   *)
(* model: cells are opaque texts.                                          *)
(***************************************************************************)
EXTENDS Integers, Sequences, FiniteSets, TLC

\* Bounds of the model.
MaxTables == 2      \* elements in a response document
MaxCols == 2        \* cells in a table row
MaxRows == 2        \* data rows of a table

None == <<>>
Some(x) == <<x>>

(***************************************************************************)
(* Inputs                                                                  *)
(***************************************************************************)
\* A few members of the option tuples of lines 12-32.
receptor_types == {"any", "IG"}
species == {"any", "Homo sapiens"}
peptide_lengths == {"any", "9"}

\* --outfile: a path as its sequence of components; the default is a bare
\* file name (line 117).
Outfiles == {<<"imgt_3dstructure_db_results.csv">>, <<"outdir", "results.csv">>}

\* vars(args) of lines 119-121.
ArgsDicts ==
    [receptor : receptor_types, species : species,
     peptide_length : peptide_lengths, outfile : Outfiles]

\* Final status codes of the response: success, a 3xx that requests does not
\* follow (no Location header), a client error, a server error.
Statuses == {200, 300, 404, 500}
Classes == {"Results", "Other"}
Names == {"ColA", "ColB"}

Layouts == UNION {[1..n -> Classes] : n \in 0..MaxTables}
Headers == UNION {[1..n -> Names] : n \in 0..MaxCols}

CellNo(p, i, j) == (p * (MaxRows + 1) + i) * (MaxCols + 1) + j

HeaderRow(header) == [j \in 1..Len(header) |-> [s |-> header[j], k |-> 0]]
DataRow(p, i, nc) == [j \in 1..nc |-> [s |-> "v", k |-> CellNo(p, i, j)]]

\* The rows of the table at position p: nothing at all when the header is
\* empty, else the header row followed by nr data rows.
Grid(p, header, nr) ==
    IF Len(header) = 0 THEN <<>>
    ELSE <<HeaderRow(header)>> \o [i \in 1..nr |-> DataRow(p, i, Len(header))]

\* A response body: the sequence of its elements, each with its identity
\* (its position), whether it matches "table.Results", and its rows.  The
\* empty sequence is the empty string.
Document(layout, header, nr) ==
    [p \in 1..Len(layout) |->
        [id |-> p, class |-> layout[p], rows |-> Grid(p, header, nr)]]

(***************************************************************************)
(* State                                                                   *)
(***************************************************************************)
VARIABLES
    args,           \* args_dict of line 121
    params,         \* self.params
    outfile,        \* self.outfile
    pc,             \* position in run() / the process
    html_content,   \* run()'s local, None until assigned
    results_table,  \* run()'s local
    results_df,     \* run()'s local
    error,          \* message of the raised Exception, "none" when none
    exitcode,       \* the process's exit status, None while it runs
    server,         \* environment: how the remote end behaves
    requests,       \* environment: the POSTs issued
    responses,      \* environment: the responses received
    dirState,       \* environment: the output directory
    file,           \* environment: what is at the output path
    file0,          \* what was at the output path when the run began
    io,             \* outcome of the last to_csv call
    nParse,         \* calls of process_response
    nWrite          \* calls of to_csv

vars == <<args, params, outfile, pc, html_content, results_table, results_df, error,
          exitcode, server, requests, responses, dirState, file, file0, io,
          nParse, nWrite>>

query_url == "https://www.imgt.org/3Dstructure-DB/cgi/3Dquery.cgi"
headers ==
    [UserAgent |-> "Mozilla/5.0 (Windows NT 10.0; Win64; x64) AppleWebKit/537.36 (KHTML, like Gecko) Chrome/58.0.3029.110 Safari/537.3"]

\* The messages of the exceptions the code raises.
FetchFailed == "Failed to fetch data"
NoContent == "No content returned from the query."
NoResultsTable == "No results table found in the response."
DirNotWritable == "Output directory is not writable or does not exist."
WriteFailed == "Failed to write to file"
\* pandas.read_html's own error for a table without any text; not caught.
NoTablesFound == "ValueError: No tables found"

ParamKeys ==
    {"type-result", "EntryGeneAllele", "type-entry", "ReceptorType", "Species",
     "PepLength"}

get_query_params_swapped(a) ==
    [key \in ParamKeys |->
        CASE key = "type-result" -> "ProteinOverview"
          [] key = "EntryGeneAllele" -> "true"
          [] key = "type-entry" -> "PDB"
          [] key = "ReceptorType" -> a.species
          [] key = "Species" -> a.receptor
          [] key = "PepLength" -> a.peptide_length]

get_query_params(a) ==
    [key \in ParamKeys |->
        CASE key = "type-result" -> "ProteinOverview"
          [] key = "EntryGeneAllele" -> "true"
          [] key = "type-entry" -> "PDB"
          [] key = "ReceptorType" -> a.receptor
          [] key = "Species" -> a.species
          [] key = "PepLength" -> a.peptide_length]

\* A file already at the output path before the run.
OldFile == [exists |-> TRUE, lines |-> <<<<[s |-> "old", k |-> 0]>>>>]
NoFile == [exists |-> FALSE, lines |-> <<>>]

\* os.path.dirname of a path given by its components.
dirname(path) == SubSeq(path, 1, Len(path) - 1)

\* The state after scraper(args_dict) of line 123, for every input and
\* every environment.  A file can be at the output path only if its
\* directory exists; a bare file name lives in the current directory, which
\* exists.
Init ==
    \E args_dict \in ArgsDicts :
        /\ args = args_dict
        /\ params = get_query_params(args_dict)
        /\ outfile = args_dict.outfile
        /\ pc = "run"
        /\ html_content = None
        /\ results_table = None
        /\ results_df = None
        /\ error = "none"
        /\ exitcode = None
        /\ server \in {"responsive", "unreachable", "silent"}
        /\ requests = <<>>
        /\ responses = <<>>
        /\ dirState \in {"missing", "readonly", "writable"}
        /\ dirname(args_dict.outfile) = <<>> => dirState # "missing"
        /\ file \in {NoFile, OldFile}
        /\ dirState = "missing" => file = NoFile
        /\ file0 = file
        /\ io = "none"
        /\ nParse = 0
        /\ nWrite = 0

(***************************************************************************)
(* post_query, lines 72-78                                                 *)
(***************************************************************************)
\* requests.post is entered: the one POST goes out with self.params as its
\* form data.  No timeout argument is given, so the call waits for as long
\* as the server takes.
PostQuerySend ==
    /\ pc = "run"
    /\ requests' = Append(requests, [url |-> query_url, data |-> params,
                                     headers |-> headers])
    /\ pc' = "awaiting"
    /\ UNCHANGED <<args, params, outfile, html_content, results_table, results_df,
                   error, exitcode, server, responses, dirState, file, file0,
                   io, nParse, nWrite>>

raise_for_status_5xx(status) == status >= 500 /\ status < 600

\* Response.raise_for_status: HTTPError for 4xx and 5xx.
raise_for_status(status) == status >= 400 /\ status < 600

\* The server answers: raise_for_status, then return response.text.
PostQueryResponse ==
    /\ pc = "awaiting"
    /\ server = "responsive"
    /\ \E status \in Statuses, layout \in Layouts, header \in Headers,
          nr \in 0..MaxRows :
        /\ responses' = Append(responses,
               [status |-> status, text |-> Document(layout, header, nr)])
        /\ IF raise_for_status(status)
           THEN /\ error' = FetchFailed
                /\ pc' = "raised"
                /\ UNCHANGED html_content
           ELSE /\ html_content' = Some(Document(layout, header, nr))
                /\ pc' = "check_content"
                /\ UNCHANGED error
    /\ UNCHANGED <<args, params, outfile, results_table, results_df, exitcode,
                   server, requests, dirState, file, file0, io, nParse,
                   nWrite>>

\* The request cannot be completed (DNS, refused connection): requests
\* raises a RequestException, re-raised by line 78.
PostQueryConnectionError ==
    /\ pc = "awaiting"
    /\ server = "unreachable"
    /\ error' = FetchFailed
    /\ pc' = "raised"
    /\ UNCHANGED <<args, params, outfile, html_content, results_table, results_df,
                   exitcode, server, requests, responses, dirState, file,
                   file0, io, nParse, nWrite>>

(***************************************************************************)
(* run, lines 87-109                                                       *)
(***************************************************************************)
CheckContent_skipped ==
    /\ pc = "check_content"
    /\ pc' = "process_response"
    /\ UNCHANGED <<args, params, outfile, html_content, results_table, results_df,
                   error, exitcode, server, requests, responses, dirState,
                   file, file0, io, nParse, nWrite>>

\* Lines 89-90: if not html_content: raise.
CheckContent ==
    /\ pc = "check_content"
    /\ IF Len(html_content[1]) = 0
       THEN /\ error' = NoContent
            /\ pc' = "raised"
       ELSE /\ pc' = "process_response"
            /\ UNCHANGED error
    /\ UNCHANGED <<args, params, outfile, html_content, results_table, results_df,
                   exitcode, server, requests, responses, dirState, file,
                   file0, io, nParse, nWrite>>

Matches(doc) == {p \in 1..Len(doc) : doc[p].class = "Results"}

select_last(doc) ==
    IF Matches(doc) = {} THEN None
    ELSE Some(doc[CHOOSE p \in Matches(doc) : \A q \in Matches(doc) : q <= p])

\* soup.select_one('table.Results'): the first match in document order,
\* None when there is none.
select_one(doc) ==
    IF Matches(doc) = {} THEN None
    ELSE Some(doc[CHOOSE p \in Matches(doc) : \A q \in Matches(doc) : p <= q])

\* Lines 91-93 with process_response, lines 80-85.  process_response never
\* returns None, so the test of line 92 never raises.
ProcessResponse ==
    /\ pc = "process_response"
    /\ nParse' = nParse + 1
    /\ IF select_one(html_content[1]) = None
       THEN /\ error' = NoResultsTable
            /\ pc' = "raised"
            /\ UNCHANGED results_table
       ELSE /\ results_table' = select_one(html_content[1])
            /\ pc' = "read_html"
            /\ UNCHANGED error
    /\ UNCHANGED <<args, params, outfile, html_content, results_df, exitcode,
                   server, requests, responses, dirState, file, file0, io,
                   nWrite>>

\* The names pandas gives the columns: a name seen c times before gets the
\* suffix ".c".
Dedup(row) ==
    [j \in 1..Len(row) |->
        [s |-> row[j].s,
         k |-> Cardinality({i \in 1..(j - 1) : row[i] = row[j]})]]

\* pandas.read_html(..., header=0, index_col=0)[0]: row 0 names the
\* columns, and column 0 becomes the index, leaving the other columns as
\* the frame's data.
read_html(rows) ==
    [index_name |-> Dedup(rows[1])[1],
     columns |-> Tail(Dedup(rows[1])),
     index |-> [i \in 1..(Len(rows) - 1) |-> rows[i + 1][1]],
     data |-> [i \in 1..(Len(rows) - 1) |-> Tail(rows[i + 1])]]

\* Line 95.  A table without any text makes read_html raise ValueError.
ReadHtml ==
    /\ pc = "read_html"
    /\ IF Len(results_table[1].rows) = 0
       THEN /\ error' = NoTablesFound
            /\ pc' = "raised"
            /\ UNCHANGED results_df
       ELSE /\ results_df' = Some(read_html(results_table[1].rows))
            /\ pc' = "check_dir"
            /\ UNCHANGED error
    /\ UNCHANGED <<args, params, outfile, html_content, results_table, exitcode,
                   server, requests, responses, dirState, file, file0, io,
                   nParse, nWrite>>

\* os.access(path, os.W_OK): false for the empty path and for a directory
\* that is missing or not writable.
os_access(path) == path # <<>> /\ dirState = "writable"

output_dir_unchecked_empty(path) == ~os_access(dirname(path))

\* Line 99: output_dir and not os.access(output_dir, os.W_OK).
output_dir_rejected(path) ==
    dirname(path) # <<>> /\ ~os_access(dirname(path))

\* Lines 97-100.
CheckOutputDir ==
    /\ pc = "check_dir"
    /\ IF output_dir_rejected(outfile)
       THEN /\ error' = DirNotWritable
            /\ pc' = "raised"
       ELSE /\ pc' = "to_csv_1"
            /\ UNCHANGED error
    /\ UNCHANGED <<args, params, outfile, html_content, results_table, results_df,
                   exitcode, server, requests, responses, dirState, file,
                   file0, io, nParse, nWrite>>

\* DataFrame.to_csv(index=False): the column names, then one line per row,
\* the index left out.
csv_lines(df) == <<df.columns>> \o df.data

\* One call of to_csv(self.outfile, index=False) inside try/except: the
\* open fails (written = -1, the path is untouched), or the file is opened
\* for writing, which empties it, and the write stops after `written`
\* lines, or all lines are written.  Any failure is an OSError, re-raised
\* as Exception by the except clause.
to_csv(written, next_pc) ==
    /\ nWrite' = nWrite + 1
    /\ IF written = -1
       THEN UNCHANGED file
       ELSE file' = [exists |-> TRUE,
                     lines |-> SubSeq(csv_lines(results_df[1]), 1, written)]
    /\ IF written < Len(csv_lines(results_df[1]))
       THEN /\ io' = "oserror"
            /\ error' = WriteFailed
            /\ pc' = "raised"
       ELSE /\ io' = "ok"
            /\ pc' = next_pc
            /\ UNCHANGED error
    /\ UNCHANGED <<args, params, outfile, html_content, results_table, results_df,
                   exitcode, server, requests, responses, dirState, file0,
                   nParse>>

\* Lines 102-105.
ToCsvFirst ==
    /\ pc = "to_csv_1"
    /\ \E written \in -1..Len(csv_lines(results_df[1])) :
          to_csv(written, "to_csv_2")

\* Lines 106-109: the same call once more.
ToCsvSecond ==
    /\ pc = "to_csv_2"
    /\ \E written \in -1..Len(csv_lines(results_df[1])) :
          to_csv(written, "returned")

(***************************************************************************)
(* The process, lines 111-124                                              *)
(***************************************************************************)
exit_status_zero(err) == 0

\* An exception nothing catches ends the interpreter with status 1; the
\* end of the script with status 0.
exit_status(err) == IF err = "none" THEN 0 ELSE 1

ProcessExit ==
    /\ pc \in {"raised", "returned"}
    /\ exitcode' = Some(exit_status(error))
    /\ pc' = "exited"
    /\ UNCHANGED <<args, params, outfile, html_content, results_table, results_df,
                   error, server, requests, responses, dirState, file, file0,
                   io, nParse, nWrite>>

Next ==
    \/ PostQuerySend
    \/ PostQueryResponse
    \/ PostQueryConnectionError
    \/ CheckContent
    \/ ProcessResponse
    \/ ReadHtml
    \/ CheckOutputDir
    \/ ToCsvFirst
    \/ ToCsvSecond
    \/ ProcessExit

Spec == Init /\ [][Next]_vars

(***************************************************************************)
(* Properties                                                              *)
(***************************************************************************)
Exited == pc = "exited"
Succeeded == pc = "exited" /\ error = "none"
Received == Len(responses) = 1
\* A success status is one that is not an error status (4xx, 5xx), the
\* reading requests gives it (Response.ok).
StatusOk == Received /\ responses[1].status \notin 400..599
StatusBad == Received /\ responses[1].status \in 400..599
\* The output path holds what it held when the run began.
Untouched == file = file0
NoResultsIn(doc) == \A p \in 1..Len(doc) : doc[p].class # "Results"

\* C1: in every terminal state either the run succeeded and the output
\* file holds the complete CSV, or the output path does not exist or is as
\* it was before the run; a write that fails after it began leaves no
\* partial file.
C1_NoPartialOutcome ==
    Exited =>
        \/ /\ error = "none"
           /\ file = [exists |-> TRUE, lines |-> csv_lines(results_df[1])]
        \/ Untouched

\* C2: after a successful run the file has one line per row of the source
\* table (header + N data rows), its first line is the table's first row
\* verbatim (every column, duplicates not renamed), and every data line has
\* one field per header column.
C2_FileMirrorsTable ==
    Succeeded =>
        LET rows == results_table[1].rows IN
        /\ Len(file.lines) = Len(rows)
        /\ file.lines[1] = rows[1]
        /\ \A i \in 2..Len(file.lines) : Len(file.lines[i]) = Len(rows[1])

\* The failure the environment and the inputs call for, by the earliest
\* stage in the order fetch, extract, write.
EarliestFailure ==
    IF server = "unreachable" \/ StatusBad THEN FetchFailed
    ELSE IF responses[1].text = <<>> THEN NoContent
    ELSE IF NoResultsIn(responses[1].text) THEN NoResultsTable
    ELSE IF results_table[1].rows = <<>> THEN NoTablesFound
    ELSE IF Len(outfile) > 1 /\ dirState # "writable" THEN DirNotWritable
    ELSE IF io = "oserror" THEN WriteFailed
    ELSE "none"

\* C3: run() is the linear pipeline fetch -> extract -> write: the table is
\* extracted only after a successful fetch with a non-empty body, the file
\* is written only after a table was found and the directory check passed,
\* nothing of a later stage happens once a stage has failed, and the error
\* reported is that of the earliest failing stage.
C3_LinearPipeline ==
    /\ nParse > 0 =>
          /\ StatusOk
          /\ html_content = Some(responses[1].text)
          /\ html_content[1] # <<>>
    /\ results_table # None => nParse > 0
    /\ results_df # None => results_table # None
    /\ nWrite > 0 =>
          /\ results_df # None
          /\ Len(outfile) = 1 \/ dirState = "writable"
    /\ error # "none" => pc \in {"raised", "exited"}
    /\ pc \in {"raised", "exited", "returned"} => error = EarliestFailure
    /\ error \in {FetchFailed, NoContent} =>
          nParse = 0 /\ results_table = None
    /\ error \in {FetchFailed, NoContent, NoResultsTable, NoTablesFound} =>
          results_df = None
    /\ error \in {FetchFailed, NoContent, NoResultsTable, NoTablesFound,
                  DirNotWritable} =>
          nWrite = 0 /\ Untouched

\* Three failure conditions hold at once (HTTP 500, empty body, missing
\* output directory) and the run has ended.
C3_Witness ==
    /\ Exited
    /\ error = FetchFailed
    /\ Received
    /\ responses[1].status = 500
    /\ responses[1].text = <<>>
    /\ dirState = "missing"

C5_ExtractTable ==
    /\ (error = NoResultsTable) =
          (nParse > 0 /\ NoResultsIn(html_content[1]))
    /\ nParse > 0 /\ ~NoResultsIn(html_content[1]) =>
          \E p \in 1..Len(html_content[1]) :
              /\ html_content[1][p].class = "Results"
              /\ \A q \in 1..(p - 1) : html_content[1][q].class # "Results"
              /\ results_table = Some(html_content[1][p])
    /\ error = NoResultsTable => nWrite = 0 /\ Untouched

\* The document holds two matching tables and one was returned.
C5_Witness ==
    /\ results_table # None
    /\ Cardinality({p \in 1..Len(html_content[1]) :
                       html_content[1][p].class = "Results"}) >= 2

\* C6: the directory part of the output path is checked before any write:
\* non-empty and missing or not writable gives the output-path error and
\* no write; an empty directory part skips the check and the write is
\* attempted; a write that fails after the check passed is reported as the
\* write error.
C6_WriteOutput ==
    /\ (error = DirNotWritable) =
          /\ results_df # None
          /\ pc # "check_dir"
          /\ Len(outfile) > 1
          /\ dirState # "writable"
    /\ error = DirNotWritable => nWrite = 0 /\ Untouched
    /\ nWrite > 0 => Len(outfile) = 1 \/ dirState = "writable"
    /\ results_df # None /\ pc # "check_dir" /\ Len(outfile) = 1 =>
          pc = "to_csv_1" \/ nWrite > 0
    /\ io = "oserror" => error = WriteFailed /\ nWrite > 0
    /\ error = WriteFailed => io = "oserror"

\* The output directory does not exist and the run has ended with the
\* output-path error.
C6_Witness ==
    /\ Exited
    /\ error = DirNotWritable
    /\ dirState = "missing"

\* C7: every run terminates: in every state the process has exited or can
\* take a step; in particular the fetch ends when the server accepts the
\* connection and never answers.
C7_RunTerminates == Exited \/ ENABLED Next

\* C8: the POST is issued at most once, the response parsed at most once
\* and the output file written at most once, exactly once each in a
\* successful run.
C8_EachStageOnce ==
    /\ Len(requests) <= 1
    /\ nParse <= 1
    /\ nWrite <= 1
    /\ Succeeded => Len(requests) = 1 /\ nParse = 1 /\ nWrite = 1

\* C9: the process exits non-zero on every stage failure, and exits zero
\* only after the output file was completely written.
C9_ExitStatus ==
    /\ exitcode # None => Exited
    /\ Exited =>
          /\ exitcode # None
          /\ error # "none" => exitcode[1] # 0
          /\ exitcode[1] = 0 =>
                /\ error = "none"
                /\ io = "ok"
                /\ file = [exists |-> TRUE,
                           lines |-> csv_lines(results_df[1])]

\* The process has exited with status 0.
C9_Witness == Exited /\ exitcode = Some(0)

\* C10: the parameters have exactly the six keys, the three fixed values,
\* and the selected receptor, species and peptide length; the POST sends
\* them as built, to the fixed endpoint.
C10_BuildParameters ==
    /\ DOMAIN params =
          {"type-result", "EntryGeneAllele", "type-entry", "ReceptorType",
           "Species", "PepLength"}
    /\ params["type-result"] = "ProteinOverview"
    /\ params["EntryGeneAllele"] = "true"
    /\ params["type-entry"] = "PDB"
    /\ params["ReceptorType"] = args.receptor
    /\ params["Species"] = args.species
    /\ params["PepLength"] = args.peptide_length
    /\ \A i \in 1..Len(requests) :
          /\ requests[i].data = params
          /\ requests[i].url = query_url
          /\ requests[i].headers = headers

\* The POST went out with a receptor and a species other than the default.
C10_Witness ==
    /\ Len(requests) = 1
    /\ args.receptor = "IG"
    /\ args.species = "Homo sapiens"
    /\ args.peptide_length = "9"

====
